---- MODULE Spec2Model ----
(***************************************************************************)
(* Model of the paste-transform plugin (src/main.ts): the persisted        *)
(* settings, the compiled rule list, the settings-tab handlers, the        *)
(* applyRules entry point and the editor-paste handler.                    *)
(*                                                                         *)
(* Strings are sequences of one-character tokens.  A pattern is a literal  *)
(* regular expression: every token of Chars matches itself, "(" opens a    *)
(* group that is never closed (new RegExp throws on it), and "h" stands    *)
(* for the URL literals of DEFAULT_SETTINGS, which occur in no text of the *)
(* model.  In a replacer the token "$&" is the full-match reference.       *)
(***************************************************************************)
EXTENDS Integers, Sequences, FiniteSets, TLC

\* Bounds of the model.
MaxRules == 2
MaxTextLen == 2
MaxEdits == 1
MaxPending == 1

Chars == {"a", "b"}

\* The texts a user pastes or types into the "Test Rules" area.
Texts == UNION {[1..n -> Chars] : n \in 0..MaxTextLen}

\* Script sources of the model: the empty script, a script that returns a
\* constant, a script that throws, and the GitHub script of DEFAULT_SETTINGS.
ScriptEmpty == ""
ScriptReturn == "return 'b'"
ScriptThrow == "throw new Error('x')"
ScriptFetch == "await fetch(url)"

\* The values the settings tab's inputs are given.
PatternPool == {<<>>, <<"a">>, <<"b">>, <<"(">>}
ReplacerPool == {<<>>, <<"b">>}
ScriptPool == {ScriptEmpty, ScriptReturn, ScriptThrow}
RuleTypes == {"replace", "script"}

---------------------------------------------------------------------------
(* JavaScript strings and regular expressions                              *)

SetMin(S) == CHOOSE x \in S : \A y \in S : x <= y

\* new RegExp(pattern) throws a SyntaxError on an unterminated group.
IsValidRegExp(pattern) == \A i \in 1..Len(pattern) : pattern[i] # "("

\* Whether the literal pattern matches text at (1-based) position i.
MatchesAt(text, pattern, i) ==
    /\ i + Len(pattern) - 1 <= Len(text)
    /\ SubSeq(text, i, i + Len(pattern) - 1) = pattern

\* String.prototype.match with a RegExp without the g flag: the leftmost
\* match (found, its index and match[0]), or null (found = FALSE).
StringMatch(text, pattern) ==
    LET idx == {i \in 1..(Len(text) + 1) : MatchesAt(text, pattern, i)}
    IN  IF idx = {}
        THEN [found |-> FALSE, index |-> 0, m0 |-> <<>>]
        ELSE [found |-> TRUE, index |-> SetMin(idx),
              m0 |-> SubSeq(text, SetMin(idx), SetMin(idx) + Len(pattern) - 1)]

\* The replacement string of String.prototype.replace: "$&" inserts the match.
RECURSIVE ExpandReplacer(_, _)
ExpandReplacer(replacer, m0) ==
    IF replacer = <<>> THEN <<>>
    ELSE (IF Head(replacer) = "$&" THEN m0 ELSE <<Head(replacer)>>)
         \o ExpandReplacer(Tail(replacer), m0)

\* String.prototype.replace with a RegExp without the g flag: only the
\* leftmost match is replaced.
StringReplace(text, pattern, replacer) ==
    LET m == StringMatch(text, pattern)
    IN  IF ~m.found THEN text
        ELSE SubSeq(text, 1, m.index - 1)
             \o ExpandReplacer(replacer, m.m0)
             \o SubSeq(text, m.index + Len(pattern), Len(text))

\* JavaScript truthiness of ReplaceRule.script (string | null).
Truthy(script) == script # "null" /\ script # ""

---------------------------------------------------------------------------
(* Settings and persisted data                                             *)

\* A rule object.  interface Rule declares pattern, type, replacer and
\* script; a rule read from persisted data keeps whatever other property
\* the data gave it, of which the model tracks `enabled`.
MkRule(pattern, type, replacer, script, enabled) ==
    [pattern |-> pattern, type |-> type, replacer |-> replacer,
     script |-> script, enabled |-> enabled]

\* DEFAULT_SETTINGS.rules: one script rule and three replace rules.
DefaultRules ==
    << MkRule(<<"h">>, "script", <<>>, ScriptFetch, "undefined"),
       MkRule(<<"h">>, "replace", <<"$&">>, ScriptEmpty, "undefined"),
       MkRule(<<"h">>, "replace", <<"$&">>, ScriptEmpty, "undefined"),
       MkRule(<<"h">>, "replace", <<"$&">>, ScriptEmpty, "undefined") >>

\* A settings object: the rule list, the format version and the permission
\* flag scriptSecurityWarningAccepted as the object holds it ("undefined"
\* when the object has no such property).
MkSettings(rs, version, accepted) ==
    [rules |-> rs, settingsFormatVersion |-> version,
     scriptSecurityWarningAccepted |-> accepted,
     showRuleNotifications |-> "undefined"]

DEFAULT_SETTINGS == MkSettings(DefaultRules, 2, "undefined")

\* What loadData() resolves to: null, a version-1 object (patterns and
\* replacers) or a version-2 object (rules, maybe the permission flag).
NullData ==
    [isNull |-> TRUE, settingsFormatVersion |-> 0, hasPatterns |-> FALSE,
     patterns |-> <<>>, replacers |-> <<>>, hasRules |-> FALSE,
     rules |-> <<>>, scriptSecurityWarningAccepted |-> "undefined",
     showRuleNotifications |-> "undefined"]

V1Data(patterns, replacers) ==
    [isNull |-> FALSE, settingsFormatVersion |-> 1, hasPatterns |-> TRUE,
     patterns |-> patterns, replacers |-> replacers, hasRules |-> FALSE,
     rules |-> <<>>, scriptSecurityWarningAccepted |-> "undefined",
     showRuleNotifications |-> "undefined"]

V2Data(rs, accepted) ==
    [isNull |-> FALSE, settingsFormatVersion |-> 2, hasPatterns |-> FALSE,
     patterns |-> <<>>, replacers |-> <<>>, hasRules |-> TRUE,
     rules |-> rs, scriptSecurityWarningAccepted |-> accepted,
     showRuleNotifications |-> "undefined"]

\* saveData(this.settings): the settings object as persisted.
SavedData(s) ==
    [V2Data(s.rules, s.scriptSecurityWarningAccepted)
        EXCEPT !.showRuleNotifications = s.showRuleNotifications]

\* The persisted files the plugin is started on.
DataPool ==
    { NullData,
      V1Data(<< <<"a">>, <<"b">>, <<"a">> >>, << <<"b">>, <<"a">> >>),
      V2Data(<<>>, "undefined"),
      V2Data(<< MkRule(<<"a">>, "replace", <<"b">>, ScriptEmpty, "false") >>, "true"),
      V2Data(<< MkRule(<<"a">>, "script", <<>>, ScriptReturn, "true") >>, "false"),
      V2Data(<< MkRule(<<"a">>, "script", <<>>, ScriptReturn, "true") >>, "true"),
      V2Data(<< MkRule(<<"a">>, "script", <<>>, ScriptThrow, "true"),
                MkRule(<<"a">>, "replace", <<"b">>, ScriptEmpty, "true") >>, "true"),
      V2Data(<< MkRule(<<"a">>, "replace", <<"b">>, ScriptEmpty, "true"),
                MkRule(<<"b">>, "replace", <<>>, ScriptEmpty, "true") >>, "false"),
      [V2Data(<< MkRule(<<"a">>, "replace", <<"b">>, ScriptEmpty, "true") >>, "false")
          EXCEPT !.showRuleNotifications = "true"],
      V2Data(<< MkRule(<<"(">>, "replace", <<>>, ScriptEmpty, "true") >>, "false") }

---------------------------------------------------------------------------
(* Compilation and loading                                                 *)

\* new ReplaceRule(rule.pattern, rule.replacer,
\*                 rule.type === 'script' ? rule.script : null)
NewReplaceRule(rule) ==
    [pattern |-> rule.pattern, replacer |-> rule.replacer,
     script |-> IF rule.type = "script" THEN rule.script ELSE "null"]

\* this.rules when compileRules() has returned or thrown: the list is
\* emptied, then filled rule by rule until a constructor throws.
RECURSIVE CompiledRules(_)
CompiledRules(rs) ==
    IF rs = <<>> THEN <<>>
    ELSE IF ~IsValidRegExp(Head(rs).pattern) THEN <<>>
    ELSE <<NewReplaceRule(Head(rs))>> \o CompiledRules(Tail(rs))

\* Whether compileRules() throws (a SyntaxError of new RegExp).
CompileThrows(rs) == \E i \in 1..Len(rs) : ~IsValidRegExp(rs[i].pattern)

\* The version-1 branch of loadSettings: patterns and replacers paired up.
MigratedRules(patterns, replacers) ==
    LET minIndex == IF Len(patterns) <= Len(replacers)
                    THEN Len(patterns) ELSE Len(replacers)
    IN  [i \in 1..minIndex |->
            MkRule(patterns[i], "replace", replacers[i], ScriptEmpty, "undefined")]

\* Object.assign({}, DEFAULT_SETTINGS, loadedData)
MergedSettings(loadedData) ==
    IF loadedData.isNull THEN DEFAULT_SETTINGS
    ELSE [MkSettings(
            IF loadedData.hasRules THEN loadedData.rules ELSE DEFAULT_SETTINGS.rules,
            IF loadedData.settingsFormatVersion # 0
                THEN loadedData.settingsFormatVersion
                ELSE DEFAULT_SETTINGS.settingsFormatVersion,
            loadedData.scriptSecurityWarningAccepted)
          EXCEPT !.showRuleNotifications = loadedData.showRuleNotifications]

\* this.settings as loadSettings assigns it.
LoadedSettings(loadedData) ==
    IF /\ ~loadedData.isNull
       /\ loadedData.settingsFormatVersion = 1
       /\ loadedData.hasPatterns
    THEN MkSettings(MigratedRules(loadedData.patterns, loadedData.replacers),
                    2, "undefined")
    ELSE MergedSettings(loadedData)

---------------------------------------------------------------------------
(* Rule execution                                                          *)

\* findMatchingRule: the index of the first compiled rule whose pattern
\* matches source, 0 for null.
FindMatchingRule(compiled, source) ==
    LET hits == {k \in 1..Len(compiled) : StringMatch(source, compiled[k].pattern).found}
    IN  IF hits = {} THEN 0 ELSE SetMin(hits)

\* How the promise of the wrapped user script settles: with a value or
\* with an error.  The GitHub script fetches, so it may do either.
ScriptOutcomes(script, m0) ==
    IF script = ScriptReturn THEN {[ok |-> TRUE, value |-> <<"b">>]}
    ELSE IF script = ScriptThrow THEN {[ok |-> FALSE, value |-> <<>>]}
    ELSE {[ok |-> TRUE, value |-> <<"[">> \o m0 \o <<"]">>],
          [ok |-> FALSE, value |-> <<>>]}

\* What executeScript resolves to for a rule with a script, once the
\* script has settled: its result, or match[0] from the catch block.
ExecuteScriptResult(outcome, m0) ==
    IF outcome.ok THEN outcome.value ELSE m0

\* The console.error calls of executeScript: one, from the catch block,
\* when the script failed.
ConsoleErrors(outcome) == IF outcome.ok THEN 0 ELSE 1

\* An executeScript with a 3000 ms watchdog that is not cancelled when the
\* script settles: it shows the "taking longer than expected" notification
\* for every script it runs.
ScriptNoticesUncancelledWatchdog(ordinal, outcome, late) ==
    << [kind |-> "slow", ordinal |-> ordinal, duration |-> 5000] >>

\* The notifications executeScript shows for the script of the rule with
\* this ordinal, given how the script settled and whether it was still
\* running (late) 3000 ms after it was started: executeScript keeps no
\* timer and constructs no Notice, so there are none.
ScriptNotices(ordinal, outcome, late) == <<>>

\* The notifications applyRules shows once the rules have run, given the
\* ordinals of the rules that changed the text: it constructs no Notice.
SummaryNotices(triggered) == <<>>

\* An executeRule that starts the script for every match of the pattern
\* at once and awaits them together.
ScriptStartsPerMatch(rule, source) ==
    Cardinality({i \in 1..(Len(source) + 1) : MatchesAt(source, rule.pattern, i)})

\* The script invocations executeRule starts for a rule with a script whose
\* pattern matches source: one executeScript call, on the first match.
ScriptStarts(rule, source) == 1

\* An executeScript that runs the script again when it has failed.
ScriptRetriesOnFailure(outcome) == IF outcome.ok THEN 0 ELSE 1

\* The further invocations of the script that executeScript makes once the
\* script has settled: none, the catch block returns match[0].
ScriptRetries(outcome) == 0

\* The branch of executeRule for a rule without a (truthy) script.
ExecuteReplace(rule, source) ==
    StringReplace(source, rule.pattern, rule.replacer)

\* executeRule on one compiled rule whose script, if any, settles in one
\* way: the source when the pattern does not match, what executeScript
\* resolves to for a rule with a script, the replaced source otherwise.
ExecuteRule(rule, source) ==
    LET m == StringMatch(source, rule.pattern)
    IN  IF ~m.found THEN source
        ELSE IF Truthy(rule.script)
        THEN ExecuteScriptResult(
                 CHOOSE o \in ScriptOutcomes(rule.script, m.m0) : TRUE, m.m0)
        ELSE ExecuteReplace(rule, source)

---------------------------------------------------------------------------
(* State                                                                   *)

VARIABLES
    data,       \* the persisted settings file (loadData / saveData)
    phase,      \* "constructed", "loaded" (onload done) or "loadFailed"
    settings,   \* plugin.settings
    rules,      \* plugin.rules, the compiled rules
    saving,     \* settings-tab handlers suspended at `await saveSettings()`
    edits,      \* settings-tab handlers invoked so far
    apply,      \* the latest applyRules call: its argument, the compiled
                \* rules it read, the rule it found, the script invocations
                \* it made (execs) and the value it resolved to (ret)
    paste       \* the latest editor-paste event and its onPaste invocation:
                \* the event, the compiled rules read, the rule found, and
                \* the calls made to preventDefault and replaceSelection

vars == <<data, phase, settings, rules, saving, edits, apply, paste>>

\* A JavaScript string value, as applyRules resolves to.
JsString(str) == [type |-> "string", str |-> str]

NoRule == [pattern |-> <<>>, replacer |-> <<>>, script |-> "null"]

ApplyIdle ==
    [pc |-> "idle", isNull |-> FALSE, source |-> <<>>, compiled |-> <<>>,
     rule |-> NoRule,
     ruleIndex |-> 0, m0 |-> <<>>, execs |-> 0, inFlight |-> 0,
     ret |-> JsString(<<>>),
     ok |-> TRUE, late |-> FALSE, errorsLogged |-> 0, notices |-> <<>>]

\* No earlier onPaste invocation is pending.
PriorNone ==
    [pc |-> "none", text |-> <<>>, rule |-> NoRule, m0 |-> <<>>,
     replaceCalls |-> 0, inserted |-> <<>>, order |-> "none"]

PasteIdle ==
    [pc |-> "idle", defaultPrevented |-> FALSE, types |-> <<>>, text |-> <<>>,
     compiled |-> <<>>, rule |-> NoRule, ruleIndex |-> 0, m0 |-> <<>>, execs |-> 0,
     inFlight |-> 0,
     preventCalls |-> 0, replaceCalls |-> 0, inserted |-> <<>>,
     ok |-> TRUE, late |-> FALSE, errorsLogged |-> 0, notices |-> <<>>,
     prior |-> PriorNone]

Init ==
    /\ data \in DataPool
    /\ phase = "constructed"
    /\ settings = MkSettings(<<>>, 0, "undefined")
    /\ rules = <<>>
    /\ saving = 0
    /\ edits = 0
    /\ apply = ApplyIdle
    /\ paste = PasteIdle

---------------------------------------------------------------------------
(* onload / loadSettings                                                   *)

\* onload: loadSettings (which ends with compileRules), then the settings
\* tab and the editor-paste handler are registered.  When compileRules
\* throws, loadSettings rejects and nothing is registered.
LoadSettings ==
    /\ phase = "constructed"
    /\ settings' = LoadedSettings(data)
    /\ rules' = CompiledRules(settings'.rules)
    /\ phase' = IF CompileThrows(settings'.rules) THEN "loadFailed" ELSE "loaded"
    /\ UNCHANGED <<data, saving, edits, apply, paste>>

---------------------------------------------------------------------------
(* The settings tab                                                        *)

\* The part every rule handler shares up to its `await`: the mutated rule
\* list is handed to saveData and the handler is suspended.
MutateAndSave(newRules) ==
    /\ phase = "loaded"
    /\ saving < MaxPending
    /\ edits < MaxEdits
    /\ settings' = [settings EXCEPT !.rules = newRules]
    /\ data' = SavedData(settings')
    /\ saving' = saving + 1
    /\ edits' = edits + 1
    /\ UNCHANGED <<phase, rules, apply, paste>>

\* The rules the tab renders inputs for and the model edits.
Editable == IF Len(settings.rules) <= MaxRules THEN 1..Len(settings.rules) ELSE {}

TypeChange ==
    \E index \in Editable, value \in RuleTypes :
        /\ value # settings.rules[index].type
        /\ MutateAndSave([settings.rules EXCEPT ![index].type = value])

DeleteRule ==
    \E index \in 1..Len(settings.rules) :
        MutateAndSave([i \in 1..(Len(settings.rules) - 1) |->
                          IF i < index THEN settings.rules[i]
                          ELSE settings.rules[i + 1]])

PatternChange ==
    \E index \in Editable, value \in PatternPool :
        /\ value # settings.rules[index].pattern
        /\ MutateAndSave([settings.rules EXCEPT ![index].pattern = value])

ReplacerChange ==
    \E index \in Editable, value \in ReplacerPool :
        /\ settings.rules[index].type = "replace"
        /\ value # settings.rules[index].replacer
        /\ MutateAndSave([settings.rules EXCEPT ![index].replacer = value])

ScriptChange ==
    \E index \in Editable, value \in ScriptPool :
        /\ settings.rules[index].type = "script"
        /\ value # settings.rules[index].script
        /\ MutateAndSave([settings.rules EXCEPT ![index].script = value])

AddRule ==
    /\ Len(settings.rules) < MaxRules
    /\ MutateAndSave(Append(settings.rules,
            [pattern |-> <<>>, type |-> "replace", replacer |-> <<>>,
             script |-> ScriptEmpty, enabled |-> "undefined"]))

\* The rest of a rule handler, after saveSettings resolved: compileRules().
AfterSave ==
    /\ saving > 0
    /\ saving' = saving - 1
    /\ rules' = CompiledRules(settings.rules)
    /\ UNCHANGED <<data, phase, settings, edits, apply, paste>>

---------------------------------------------------------------------------
(* applyRules                                                              *)

\* applyRules(null) and applyRules(undefined): the guard returns "".
ApplyNull ==
    /\ phase # "constructed"
    /\ apply.pc # "script"
    /\ apply' = [ApplyIdle EXCEPT !.pc = "done", !.isNull = TRUE,
                                  !.ret = JsString(<<>>)]
    /\ UNCHANGED <<data, phase, settings, rules, saving, edits, paste>>

\* applyRules(source) up to its first suspension: findMatchingRule, then
\* executeRule on the rule found.  Without a matching rule the source is
\* returned; a rule without a script replaces at once; a rule with a
\* script starts the script and waits for it.
ApplyStart ==
    \E source \in Texts :
        LET k == FindMatchingRule(rules, source)
            call == [ApplyIdle EXCEPT !.source = source, !.compiled = rules,
                                      !.ruleIndex = k]
        IN  /\ phase # "constructed"
            /\ apply.pc # "script"
            /\ apply' =
                 IF k = 0
                 THEN [call EXCEPT !.pc = "done", !.ret = JsString(source)]
                 ELSE IF Truthy(rules[k].script)
                 THEN [call EXCEPT !.pc = "script", !.rule = rules[k],
                          !.m0 = StringMatch(source, rules[k].pattern).m0,
                          !.execs = ScriptStarts(rules[k], source),
                          !.inFlight = ScriptStarts(rules[k], source)]
                 ELSE [call EXCEPT !.pc = "done", !.rule = rules[k],
                          !.ret = JsString(ExecuteReplace(rules[k], source)),
                          !.notices = SummaryNotices(
                              IF ExecuteReplace(rules[k], source) # source
                              THEN {k} ELSE {})]
            /\ UNCHANGED <<data, phase, settings, rules, saving, edits, paste>>

\* The script of the applyRules call settles: executeScript resolves to the
\* script's result or, from its catch block, to match[0]; executeRule and
\* applyRules resolve to the same string.  The script may have run for
\* less or for more than 3000 ms (late).
ApplySettle ==
    \E outcome \in ScriptOutcomes(apply.rule.script, apply.m0),
       late \in BOOLEAN :
        /\ apply.pc = "script"
        /\ apply' = [apply EXCEPT !.pc = "done",
                        !.ret = JsString(ExecuteScriptResult(outcome, apply.m0)),
                        !.ok = outcome.ok, !.late = late,
                        !.execs = @ + ScriptRetries(outcome),
                        !.inFlight = 0,
                        !.errorsLogged = ConsoleErrors(outcome),
                        !.notices =
                            ScriptNotices(apply.ruleIndex, outcome, late)
                            \o SummaryNotices(
                                  IF ExecuteScriptResult(outcome, apply.m0) # apply.source
                                  THEN {apply.ruleIndex} ELSE {})]
        /\ UNCHANGED <<data, phase, settings, rules, saving, edits, paste>>

\* What handleChanges of the settings tab writes to the "Try destination"
\* area for an applyRules call that resolved: the result.  Its catch branch
\* ("ERROR:" and the error) needs applyRules to reject, which it does not
\* do once the settings are loaded.
HandleChanges(call) == [error |-> FALSE, text |-> call.ret.str]

---------------------------------------------------------------------------
(* onPaste                                                                 *)

TextPlain == <<"text/plain">>

\* The editor-paste events of the model: one whose default was prevented by
\* another handler, one that carries more than plain text, and a plain-text
\* event for every text.
PasteEvents ==
    {[defaultPrevented |-> TRUE, types |-> TextPlain, text |-> <<"a">>],
     [defaultPrevented |-> FALSE, types |-> <<"text/html", "text/plain">>,
      text |-> <<"a">>]}
    \cup {[defaultPrevented |-> FALSE, types |-> TextPlain, text |-> t] : t \in Texts}

\* An onPaste that does not look at the clipboard types.
OnPasteReturnsEarlyAnyTypes(event, k) ==
    \/ event.defaultPrevented
    \/ event.text = <<>>
    \/ k = 0

\* Whether onPaste returns without doing anything: the event is already
\* prevented, the clipboard types are not exactly ["text/plain"], the text
\* is empty, or findMatchingRule found no rule (k = 0).
OnPasteReturnsEarly(event, k) ==
    \/ event.defaultPrevented
    \/ event.types # TextPlain
    \/ event.text = <<>>
    \/ k = 0

\* An onPaste that inserts the matched part of the text, not the result.
PasteInsertionOfMatch(rule, source, result) ==
    StringMatch(source, rule.pattern).m0

\* The text onPaste hands to replaceSelection: the result of executeRule.
PasteInsertion(rule, source, result) == result

\* onPaste(event) up to its first suspension.  The early returns, then
\* findMatchingRule; on a match preventDefault() is called and the rule is
\* executed: a rule without a script yields its text at once, which is
\* inserted with replaceSelection (the event came from the active editor).
\* The handler registered in onload does not wait for an earlier onPaste:
\* an invocation still awaiting its script stays behind as paste.prior
\* (the model follows two invocations at a time).
PasteStart ==
    \E event \in PasteEvents :
        LET k == FindMatchingRule(rules, event.text)
            call == [PasteIdle EXCEPT !.defaultPrevented = event.defaultPrevented,
                                      !.types = event.types, !.text = event.text,
                                      !.compiled = rules,
                                      !.prior = IF paste.pc = "script"
                                                THEN [pc |-> "script",
                                                      text |-> paste.text,
                                                      rule |-> paste.rule,
                                                      m0 |-> paste.m0,
                                                      replaceCalls |-> 0,
                                                      inserted |-> <<>>,
                                                      order |-> "none"]
                                                ELSE PriorNone]
        IN  /\ phase = "loaded"
            /\ paste.prior.pc # "script"
            /\ paste' =
                 IF OnPasteReturnsEarly(event, k)
                 THEN [call EXCEPT !.pc = "done"]
                 ELSE IF Truthy(rules[k].script)
                 THEN [call EXCEPT !.pc = "script", !.ruleIndex = k,
                          !.rule = rules[k],
                          !.m0 = StringMatch(event.text, rules[k].pattern).m0,
                          !.execs = ScriptStarts(rules[k], event.text),
                          !.inFlight = ScriptStarts(rules[k], event.text),
                          !.preventCalls = 1]
                 ELSE [call EXCEPT !.pc = "done", !.ruleIndex = k,
                          !.rule = rules[k], !.preventCalls = 1,
                          !.replaceCalls = 1,
                          !.inserted = PasteInsertion(rules[k], event.text,
                                           ExecuteReplace(rules[k], event.text))]
            /\ UNCHANGED <<data, phase, settings, rules, saving, edits, apply>>

\* The script of the paste settles and onPaste resumes:
\* activeEditor?.editor?.replaceSelection(result) inserts the result when
\* an editor is still active and does nothing otherwise.
PasteSettle ==
    \E outcome \in ScriptOutcomes(paste.rule.script, paste.m0),
       late \in BOOLEAN, editorActive \in BOOLEAN :
        LET settled == [paste EXCEPT !.pc = "done", !.ok = outcome.ok,
                           !.late = late,
                           !.execs = @ + ScriptRetries(outcome),
                           !.inFlight = 0,
                           !.errorsLogged = ConsoleErrors(outcome),
                           !.notices = ScriptNotices(paste.ruleIndex, outcome, late)]
        IN
        /\ paste.pc = "script"
        /\ paste' =
             IF editorActive
             THEN [settled EXCEPT !.replaceCalls = 1,
                      !.inserted = PasteInsertion(paste.rule, paste.text,
                                       ExecuteScriptResult(outcome, paste.m0))]
             ELSE settled
        /\ UNCHANGED <<data, phase, settings, rules, saving, edits, apply>>

\* The script of the earlier paste settles and its onPaste resumes, after
\* a later paste event was handled: its result is inserted before or after
\* the text of the later paste, depending on whether that is in yet.
PasteSettlePrior ==
    \E outcome \in ScriptOutcomes(paste.prior.rule.script, paste.prior.m0),
       editorActive \in BOOLEAN :
        /\ paste.prior.pc = "script"
        /\ paste' =
             [paste EXCEPT !.prior =
                 IF editorActive
                 THEN [@ EXCEPT !.pc = "done", !.replaceCalls = 1,
                          !.inserted = PasteInsertion(paste.prior.rule, paste.prior.text,
                                           ExecuteScriptResult(outcome, paste.prior.m0)),
                          !.order = IF paste.pc = "done" THEN "afterLater"
                                    ELSE "beforeLater"]
                 ELSE [@ EXCEPT !.pc = "done"]]
        /\ UNCHANGED <<data, phase, settings, rules, saving, edits, apply>>

---------------------------------------------------------------------------
(* Specifications                                                          *)

SettingsNext ==
    \/ LoadSettings
    \/ TypeChange
    \/ DeleteRule
    \/ PatternChange
    \/ ReplacerChange
    \/ ScriptChange
    \/ AddRule
    \/ AfterSave

ApplyNext ==
    \/ ApplyNull
    \/ ApplyStart
    \/ ApplySettle

PasteNext ==
    \/ PasteStart
    \/ PasteSettle
    \/ PasteSettlePrior

\* A paste event that arrives while no onPaste invocation is pending.
PasteAlone == paste.pc # "script" /\ PasteStart

Next == SettingsNext \/ ApplyNext \/ PasteNext

\* The whole plugin.
Spec == Init /\ [][Next]_vars

\* The plugin with the "Test Rules" area as the only source of runs.
SpecApply == Init /\ [][SettingsNext \/ ApplyNext]_vars

\* The plugin with pastes as the only source of runs, one paste at a time.
SpecPaste == Init /\ [][SettingsNext \/ PasteAlone \/ PasteSettle]_vars

\* The plugin with pastes that may arrive while an earlier one is pending.
SpecPasteOverlap == Init /\ [][SettingsNext \/ PasteNext]_vars

\* The plugin as loaded from its settings file, with the "Test Rules" area
\* and pastes, one paste at a time, and no edit in the settings tab.
SpecPreview ==
    Init /\ [][LoadSettings \/ ApplyNext \/ PasteAlone \/ PasteSettle]_vars

---------------------------------------------------------------------------
(* Properties                                                              *)

\* A run result object {changed, result}, as opposed to a bare string.
IsRunResult(v, changed, result) ==
    /\ v.type = "object"
    /\ v.changed = changed
    /\ v.result = result

\* The character of text at position i, as a string (empty past the end).
CharAt(text, i) == IF i <= Len(text) THEN <<text[i]>> ELSE <<>>

\* A global substitute: every non-overlapping match of pattern in text,
\* scanned left to right from position i, replaced by the replacer.
RECURSIVE ReplaceEveryMatch(_, _, _, _)
ReplaceEveryMatch(text, pattern, replacer, i) ==
    IF i > Len(text) + 1 THEN <<>>
    ELSE IF MatchesAt(text, pattern, i)
    THEN ExpandReplacer(replacer, pattern)
         \o (IF pattern = <<>>
             THEN CharAt(text, i) \o ReplaceEveryMatch(text, pattern, replacer, i + 1)
             ELSE ReplaceEveryMatch(text, pattern, replacer, i + Len(pattern)))
    ELSE CharAt(text, i) \o ReplaceEveryMatch(text, pattern, replacer, i + 1)

\* The rules applied one after another, each to the text the previous
\* ones produced.
RECURSIVE CumulativeRun(_, _)
CumulativeRun(compiled, text) ==
    IF compiled = <<>> THEN text
    ELSE CumulativeRun(Tail(compiled), ExecuteRule(Head(compiled), text))

\* The call read the compilation of the current settings, in which every
\* rule is enabled, execution of the scripts there are is permitted, every
\* pattern is valid and every script settles in one way.
InForce(call) ==
    /\ (\E i \in 1..Len(settings.rules) : settings.rules[i].type = "script")
           => settings.scriptSecurityWarningAccepted = "true"
    /\ \A i \in 1..Len(settings.rules) : settings.rules[i].enabled = "true"
    /\ ~CompileThrows(settings.rules)
    /\ call.compiled = CompiledRules(settings.rules)
    /\ \A k \in 1..Len(call.compiled) : call.compiled[k].script # ScriptFetch

ApplyReturned == apply.pc = "done" /\ ~apply.isNull

\* C1: applyRules applies the compiled rules in list order and
\* cumulatively: its result is what the rules give when each one rewrites
\* the text produced by the rules before it.
C1_RulesAreCumulative ==
    (ApplyReturned /\ InForce(apply))
        => apply.ret.str = CumulativeRun(apply.compiled, apply.source)

\* C2: a replace-type rule replaces every non-overlapping match of its
\* pattern in the text, not only the first one.
C2_ReplaceRuleReplacesEveryMatch ==
    (/\ ApplyReturned /\ InForce(apply)
     /\ Len(apply.compiled) = 1
     /\ apply.compiled[1].script = "null")
        => apply.ret.str = ReplaceEveryMatch(apply.source, apply.compiled[1].pattern,
                                             apply.compiled[1].replacer, 1)

\* C3: a script-type rule yields the text with each match's span replaced
\* by the string the script returned and every other character in place.
C3_ScriptResultIsSplicedIntoText ==
    (/\ ApplyReturned /\ InForce(apply)
     /\ Len(apply.compiled) = 1
     /\ apply.compiled[1].script = ScriptReturn)
        => apply.ret.str = ReplaceEveryMatch(apply.source, apply.compiled[1].pattern,
                                             <<"b">>, 1)

\* C4: when the script of the only rule throws, applyRules returns the
\* input text unchanged, whatever surrounds the match.
C4_ThrowingScriptLeavesTextUnchanged ==
    (/\ ApplyReturned /\ InForce(apply)
     /\ Len(apply.compiled) = 1
     /\ apply.compiled[1].script = ScriptThrow)
        => apply.ret.str = apply.source

\* C5: a failing rule never stops the chain: after the script of the first
\* matching rule throws, every later rule is still applied, to the text
\* the failing rule left as it was.
C5_ChainContinuesAfterFailure ==
    (/\ ApplyReturned /\ InForce(apply)
     /\ apply.ruleIndex > 0
     /\ apply.rule.script = ScriptThrow)
        => apply.ret.str =
             CumulativeRun(SubSeq(apply.compiled, apply.ruleIndex + 1,
                                  Len(apply.compiled)), apply.source)

\* C6: the paste handler overrides the default paste (preventDefault and
\* replaceSelection) only when the final text differs from the pasted text.
C6_OverrideOnlyWhenChanged ==
    (/\ paste.pc = "done" /\ InForce(paste)
     /\ paste.preventCalls > 0
     /\ paste.replaceCalls > 0)
        => paste.inserted # paste.text

\* C7: applyRules(null) runs no rule and returns {changed: false, result: ""}.
C7_NullSourceGivesEmptyRunResult ==
    (apply.pc = "done" /\ apply.isNull)
        => /\ apply.execs = 0
           /\ apply.ruleIndex = 0
           /\ IsRunResult(apply.ret, FALSE, <<>>)

\* C8: when no rule of the list matches, applyRules runs nothing and returns
\* changed = false and a result identical to the input.
C8_NoMatchGivesUnchangedRunResult ==
    (ApplyReturned /\ apply.ruleIndex = 0)
        => /\ apply.execs = 0
           /\ IsRunResult(apply.ret, FALSE, apply.source)

\* The rules of the current settings that are not disabled.
EnabledRules == SelectSeq(settings.rules, LAMBDA r : r.enabled # "false")

\* compileRules has run on the current settings and has not thrown.
Compiled ==
    /\ phase # "constructed"
    /\ saving = 0
    /\ ~CompileThrows(settings.rules)

\* C9: compileRules leaves every disabled rule out of the compiled set, and
\* a run over a list whose rules are all disabled leaves the text as it is.
C9_DisabledRulesAreNotCompiled ==
    Compiled =>
        /\ Len(rules) = Len(EnabledRules)
        /\ (ApplyReturned /\ apply.compiled = rules /\ EnabledRules = <<>>)
               => apply.ret.str = apply.source

\* C10: while the permission flag is false, no script-type rule is in the
\* compiled set, and a run executes no script and leaves a text that only
\* script-type rules match as it is.
C10_NoScriptRuleWithoutPermission ==
    (Compiled /\ settings.scriptSecurityWarningAccepted = "false") =>
        /\ \A k \in 1..Len(rules) : rules[k].script = "null"
        /\ (apply.pc = "done" /\ apply.compiled = rules) => apply.execs = 0
        /\ (/\ ApplyReturned /\ apply.compiled = rules
            /\ \A i \in 1..Len(settings.rules) : settings.rules[i].type = "script")
               => apply.ret.str = apply.source

---------------------------------------------------------------------------
(* Loading: migration, the permission flag, compilation errors             *)

\* loadSettings has assigned this.settings from a version-1 file; a later
\* save would have replaced the file by a version-2 one.
MigratedFromV1 ==
    /\ phase # "constructed"
    /\ ~data.isNull
    /\ data.settingsFormatVersion = 1
    /\ data.hasPatterns

\* C11: loading version-1 data yields min(len(patterns), len(replacers))
\* rules; rule i pairs patterns[i] with replacers[i], is of type 'replace',
\* has an empty script and enabled = true; the format version becomes 2.
C11_MigrationPairsRules ==
    MigratedFromV1 =>
        LET n == IF Len(data.patterns) <= Len(data.replacers)
                 THEN Len(data.patterns) ELSE Len(data.replacers)
        IN  /\ Len(settings.rules) = n
            /\ \A i \in 1..n :
                  settings.rules[i] =
                      [pattern |-> data.patterns[i], type |-> "replace",
                       replacer |-> data.replacers[i], script |-> ScriptEmpty,
                       enabled |-> "true"]
            /\ settings.settingsFormatVersion = 2

\* C12: after loadSettings on migrated version-1 data, on data without the
\* permission flag or on no data at all, the permission flag is the
\* boolean false.
C12_PermissionFlagDefaultsToFalse ==
    (/\ phase # "constructed"
     /\ \/ data.isNull
        \/ MigratedFromV1
        \/ data.scriptSecurityWarningAccepted = "undefined")
        => settings.scriptSecurityWarningAccepted = "false"

\* loadSettings has finished and no settings-tab handler has run since.
LoadFinished == phase # "constructed" /\ edits = 0

\* The rule list holds an enabled rule of type 'script'.
HasEnabledScriptRule ==
    \E i \in 1..Len(settings.rules) :
        /\ settings.rules[i].type = "script"
        /\ settings.rules[i].enabled = "true"

\* C13: when loadSettings finishes on a rule list without an enabled
\* script-type rule, the permission flag is not true, neither in the
\* settings nor in the persisted file.
C13_FlagIsDowngradedOnLoad ==
    (LoadFinished /\ ~HasEnabledScriptRule)
        => /\ settings.scriptSecurityWarningAccepted # "true"
           /\ data.scriptSecurityWarningAccepted # "true"

\* The rules of a list whose patterns are valid regular expressions.
WellFormedRules(rs) == SelectSeq(rs, LAMBDA r : IsValidRegExp(r.pattern))

\* Every rule of the settings is one that a compilation keeps when its
\* pattern is valid: it is enabled and, if of type 'script', permitted.
AllRulesEligible ==
    \A i \in 1..Len(settings.rules) :
        /\ settings.rules[i].enabled = "true"
        /\ settings.rules[i].type = "script"
              => settings.scriptSecurityWarningAccepted = "true"

\* C14: compileRules does not throw on a malformed pattern; it leaves out
\* that rule alone and compiles every other rule, in the original order.
C14_MalformedPatternIsSkipped ==
    (phase # "constructed" /\ saving = 0 /\ AllRulesEligible)
        => /\ phase # "loadFailed"
           /\ rules = [k \in 1..Len(WellFormedRules(settings.rules)) |->
                          NewReplaceRule(WellFormedRules(settings.rules)[k])]

\* C15: loadSettings, applyRules and onPaste never throw or reject, and a
\* paste in which a rule failed inserts the original or the partially
\* transformed text, never the empty text.
C15_NoErrorLeavesThePastePath ==
    /\ phase # "loadFailed"
    /\ (paste.pc = "done" /\ ~paste.ok /\ paste.replaceCalls > 0)
           => paste.inserted # <<>>

---------------------------------------------------------------------------
(* Notifications                                                           *)

\* The applyRules call has run a script to its end.
ScriptSettled == apply.pc = "done" /\ apply.execs > 0

\* The notifications of one kind that the applyRules call has shown.
NoticesOfKind(kind) ==
    {i \in 1..Len(apply.notices) : apply.notices[i].kind = kind}

\* C16: a script that settles, with a value or with an error, before the
\* 3000 ms watchdog delay causes no "taking longer than expected"
\* notification.
C16_NoSlowNoticeForFastScript ==
    (ScriptSettled /\ ~apply.late) => NoticesOfKind("slow") = {}

\* A script has settled before the watchdog delay.
C16_FastScriptSettled == ScriptSettled /\ ~apply.late

\* C17: a script still running 3000 ms after it was started causes exactly
\* one "taking longer than expected" notification, tagged with the ordinal
\* of its rule.
C17_OneSlowNoticePerSlowMatch ==
    (ScriptSettled /\ InForce(apply) /\ apply.late)
        => /\ Cardinality(NoticesOfKind("slow")) = 1
           /\ \A i \in NoticesOfKind("slow") :
                  apply.notices[i].ordinal = apply.ruleIndex

\* C18: a script failure logs the error and shows one failure notification
\* "Rule #<ordinal> script execution error: ..." for 5000 ms, with the
\* ordinal of the failing rule.
C18_ScriptFailureIsNotified ==
    (ScriptSettled /\ InForce(apply) /\ ~apply.ok)
        => /\ apply.errorsLogged = 1
           /\ \E i \in NoticesOfKind("error") :
                  /\ apply.notices[i].ordinal = apply.ruleIndex
                  /\ apply.notices[i].duration = 5000

\* C19: a run shows exactly one summary notification, naming the rules
\* that changed the text, when some rule changed the text and
\* showRuleNotifications is true, and no summary notification otherwise.
C19_OneSummaryNoticePerRun ==
    (ApplyReturned /\ InForce(apply)) =>
        IF apply.ret.str # apply.source /\ settings.showRuleNotifications = "true"
        THEN /\ Cardinality(NoticesOfKind("summary")) = 1
             /\ \A i \in NoticesOfKind("summary") :
                    apply.ruleIndex \in apply.notices[i].ordinals
        ELSE NoticesOfKind("summary") = {}

---------------------------------------------------------------------------
(* Script invocations, the settings tab, concurrency                       *)

\* C21: within one paste a rule's script is invoked at most once for the
\* match that is handled: not again after a failure, and not once to test
\* and once to replace.
C21_ScriptRunsAtMostOncePerMatch ==
    paste.execs <= (IF paste.ruleIndex # 0 THEN 1 ELSE 0)

\* A paste whose script failed has completed.
C21_FailedScriptNotRetried ==
    paste.pc = "done" /\ paste.execs = 1 /\ ~paste.ok

\* C22: after the user has entered an invalid regular expression as a
\* pattern, the next test of the rules shows "ERROR:" and the error in the
\* "Try destination" area.
C22_InvalidPatternShownInTryDest ==
    (/\ phase = "loaded" /\ edits > 0 /\ saving = 0
     /\ CompileThrows(settings.rules)
     /\ ApplyReturned /\ apply.compiled = rules)
        => HandleChanges(apply).error

\* The complete compilation of a rule list: every rule with a well-formed
\* pattern, in order.
CompleteCompilation(rs) ==
    [k \in 1..Len(WellFormedRules(rs)) |-> NewReplaceRule(WellFormedRules(rs)[k])]

\* C23: every step leaves plugin.rules either as it was or as the complete
\* compilation of the settings, never emptied or partially filled.
C23_CompiledSetReplacedAtomically ==
    [][\/ rules' = rules
       \/ rules' = CompleteCompilation(settings'.rules)]_vars

\* C24: every paste event is handled as the compilation of the
\* settings.rules of that moment handles it: by the rule that this
\* compilation finds for the pasted text, or by none if it finds none.
C24_NoPasteOnStaleRules ==
    [][(paste.pc # "script" /\ paste' # paste
        /\ ~paste'.defaultPrevented /\ paste'.types = TextPlain)
          => LET current == CompiledRules(settings.rules)
                 k == FindMatchingRule(current, paste'.text)
             IN  /\ paste'.ruleIndex = (IF paste'.text = <<>> THEN 0 ELSE k)
                 /\ paste'.ruleIndex # 0 => paste'.rule = current[k]]_vars

\* C25: no paste event is handled while the script of an earlier paste is
\* pending, and no result is inserted after the text of a later paste.
C25_PastesDoNotOverlap ==
    /\ paste.prior.pc # "script"
    /\ paste.prior.order # "afterLater"

C27_OtherModeFieldIsIgnored ==
    (ApplyReturned /\ apply.ruleIndex # 0 /\ InForce(apply))
        => LET r == settings.rules[apply.ruleIndex]
               replaced == StringReplace(apply.source, r.pattern, r.replacer)
           IN  /\ r.type = "replace" => apply.execs = 0
               /\ (r.type = "script" /\ r.script = ScriptEmpty
                   /\ replaced # apply.source)
                      => apply.ret.str # replaced

\* An applyRules call and a paste have completed on the same text and the
\* same compiled rules, with scripts that settle in one way only.
SameRun ==
    /\ ApplyReturned
    /\ paste.pc = "done"
    /\ ~paste.defaultPrevented /\ paste.types = TextPlain /\ paste.text # <<>>
    /\ apply.source = paste.text
    /\ apply.compiled = paste.compiled
    /\ apply.rule.script # ScriptFetch

C29_PreventDefaultOnlyOnMatch ==
    paste.pc # "idle" =>
        IF \/ paste.defaultPrevented
           \/ paste.types # TextPlain
           \/ paste.text = <<>>
           \/ FindMatchingRule(paste.compiled, paste.text) = 0
        THEN paste.preventCalls = 0 /\ paste.replaceCalls = 0
        ELSE paste.preventCalls = 1

\* onPaste has called preventDefault and is awaiting the script.
C29_PreventedBeforeAwait ==
    paste.pc = "script" /\ paste.preventCalls = 1 /\ paste.replaceCalls = 0

\* C30: an onPaste invocation that has called preventDefault calls
\* replaceSelection exactly once before it ends, and one that has not
\* called preventDefault never calls replaceSelection.
C30_PreventedPasteIsInserted ==
    /\ paste.replaceCalls <= paste.preventCalls
    /\ paste.pc = "done" => paste.replaceCalls = paste.preventCalls

====
